---- MODULE Spec2Model ----
(***************************************************************************)
(* Model of venmo-transaction-export (main.go): the driver that pages      *)
(* through the Venmo stories feed, stops at the first transaction older    *)
(* than the end date and writes one CSV record per accepted transaction.   *)
(*                                                                         *)
(* Representation of Go strings:                                           *)
(*   - strings the program inspects character by character (story.Type,    *)
(*     story.Amount) are sequences of one-character strings;               *)
(*   - strings the program only compares and concatenates (names, note     *)
(*     contents, cursors) are TLA+ strings;                                *)
(*   - date strings are records of their lexical fields:                   *)
(*       layout  "rfc3339"  2006-01-02T15:04:05Z07:00                      *)
(*               "naive"    2006-01-02T15:04:05   (no zone)                *)
(*               "dateonly" 2006-01-02                                     *)
(*               "garbage"  anything else                                  *)
(*       day, hour: the calendar day and hour written in the string,       *)
(*       off: the zone offset written in the string, in hours.             *)
(* Instants are counted in hours since day 0, 00:00 UTC.                   *)
(***************************************************************************)
EXTENDS Integers, Sequences, FiniteSets, TLC

(***************************************************************************)
(* strings package                                                         *)
(***************************************************************************)
Upper == <<"A","B","C","D","E","F","G","H","I","J","K","L","M",
           "N","O","P","Q","R","S","T","U","V","W","X","Y","Z">>
Lower == <<"a","b","c","d","e","f","g","h","i","j","k","l","m",
           "n","o","p","q","r","s","t","u","v","w","x","y","z">>
Digits == <<"0","1","2","3","4","5","6","7","8","9">>

DigitSet == {Digits[i] : i \in 1..10}

IsDigit(c) == c \in DigitSet

\* the value of each digit character
DigitValue == [c \in DigitSet |-> (CHOOSE i \in 1..10 : Digits[i] = c) - 1]

DigitVal(c) == DigitValue[c]

UpperSet == {Upper[i] : i \in 1..26}

\* the lower-case letter of each upper-case letter
LowerOf == [c \in UpperSet |-> Lower[CHOOSE i \in 1..26 : Upper[i] = c]]

ToLowerCh(c) == IF c \in UpperSet THEN LowerOf[c] ELSE c

\* strings.ToLower
ToLower(s) == [i \in 1..Len(s) |-> ToLowerCh(s[i])]

\* strings.Contains
Contains(s, sub) ==
  \E i \in 0..(Len(s) - Len(sub)) : SubSeq(s, i + 1, i + Len(sub)) = sub

\* strings.ReplaceAll(s, old, "") for a one-character old
ReplaceAll(s, old) == SelectSeq(s, LAMBDA c : c # old)

IsSpace(c) == c \in {" ", "\t", "\n", "\r"}

\* strings.TrimSpace
TrimSpace(s) ==
  LET keep == {i \in 1..Len(s) : ~IsSpace(s[i])}
  IN  IF keep = {} THEN <<>>
      ELSE LET lo == CHOOSE i \in keep : \A j \in keep : i <= j
               hi == CHOOSE i \in keep : \A j \in keep : i >= j
           IN  SubSeq(s, lo, hi)

RECURSIVE Join(_)
\* the Go string made of the characters of s
Join(s) == IF s = <<>> THEN "" ELSE Head(s) \o Join(Tail(s))

(***************************************************************************)
(* time package                                                            *)
(***************************************************************************)
\* time.Parse(layout, s): ok iff the string is written in that layout; the
\* instant is the written wall clock minus the written offset (UTC when the
\* layout carries no zone).
TimeParse(layout, s) ==
  IF s.layout # layout THEN [ok |-> FALSE, t |-> 0]
  ELSE IF layout = "rfc3339" THEN [ok |-> TRUE, t |-> s.day * 24 + s.hour - s.off]
  ELSE IF layout = "naive"   THEN [ok |-> TRUE, t |-> s.day * 24 + s.hour]
  ELSE IF layout = "dateonly" THEN [ok |-> TRUE, t |-> s.day * 24]
  ELSE [ok |-> FALSE, t |-> 0]

\* mutant: not-after instead of before
BeforeOrEqual(t, u) == t <= u

\* Time.Before
Before(t, u) == t < u

\* main.go 125-137: RFC3339 first, then the zone-less layout
ParseTransactionDate(s) ==
  LET first == TimeParse("rfc3339", s)
  IN  IF first.ok THEN first ELSE TimeParse("naive", s)

(***************************************************************************)
(* strconv package                                                         *)
(*                                                                         *)
(* A float is a record: cls "fin" | "inf" | "nan", neg the sign bit, and   *)
(* for a finite value the magnitude m / 2^k (m * 2^(-k) when k < 0).       *)
(* Amount strings of the model carry no '_' and no hexadecimal prefix and  *)
(* at most two fractional digits, so every magnitude fits TLC's integers.  *)
(***************************************************************************)
RECURSIVE Pow(_, _)
Pow(b, n) == IF n = 0 THEN 1 ELSE b * Pow(b, n - 1)

RECURSIVE DigitsVal(_)
\* value of a sequence of decimal digits
DigitsVal(s) ==
  IF s = <<>> THEN 0 ELSE DigitsVal(SubSeq(s, 1, Len(s) - 1)) * 10 + DigitVal(s[Len(s)])

\* round-half-to-even quotient of a / b
RoundHalfEven(a, b) ==
  LET q == a \div b
      r == a % b
  IN  IF 2 * r > b \/ (2 * r = b /\ q % 2 = 1) THEN q + 1 ELSE q

RECURSIVE ScaleUp(_, _)
\* least k >= 0 with a * 2^k >= lim
ScaleUp(a, lim) == IF a >= lim THEN 0 ELSE 1 + ScaleUp(2 * a, lim)

RECURSIVE ScaleDown(_, _)
\* least j >= 0 with a \div 2^j < lim
ScaleDown(a, lim) == IF a < lim THEN 0 ELSE 1 + ScaleDown(a \div 2, lim)

Zero == [cls |-> "fin", neg |-> FALSE, m |-> 0, k |-> 0]

\* nearest float32 (24-bit significand, ties to even) of num / den
Float32(num, den) ==
  IF num = 0 THEN Zero
  ELSE IF num \div den < Pow(2, 24)
  THEN LET k0 == ScaleUp(num, Pow(2, 23) * den)
           m0 == RoundHalfEven(num * Pow(2, k0), den)
       IN  IF m0 = Pow(2, 24)
           THEN [cls |-> "fin", neg |-> FALSE, m |-> Pow(2, 23), k |-> k0 - 1]
           ELSE [cls |-> "fin", neg |-> FALSE, m |-> m0, k |-> k0]
  ELSE LET j0 == ScaleDown(num \div den, Pow(2, 24))
           m0 == RoundHalfEven(num, den * Pow(2, j0))
       IN  IF m0 = Pow(2, 24)
           THEN [cls |-> "fin", neg |-> FALSE, m |-> Pow(2, 23), k |-> 0 - (j0 + 1)]
           ELSE [cls |-> "fin", neg |-> FALSE, m |-> m0, k |-> 0 - j0]

\* length of the mantissa prefix read by readFloat: digits and one '.'
RECURSIVE MantLen(_, _)
MantLen(s, sawdot) ==
  IF s = <<>> THEN 0
  ELSE IF IsDigit(Head(s)) THEN 1 + MantLen(Tail(s), sawdot)
  ELSE IF Head(s) = "." /\ ~sawdot THEN 1 + MantLen(Tail(s), TRUE)
  ELSE 0

SyntaxError == [ok |-> FALSE, v |-> Zero]

\* strconv.ParseFloat(s, 32)
ParseFloat(s) ==
  LET low == ToLower(s)
  IN
  IF low = <<"i","n","f">> \/ low = <<"i","n","f","i","n","i","t","y">>
  THEN [ok |-> TRUE, v |-> [cls |-> "inf", neg |-> FALSE, m |-> 0, k |-> 0]]
  ELSE IF low = <<"n","a","n">>
  THEN [ok |-> TRUE, v |-> [cls |-> "nan", neg |-> FALSE, m |-> 0, k |-> 0]]
  ELSE
    LET sgn   == IF s # <<>> /\ Head(s) \in {"+", "-"} THEN 1 ELSE 0
        body  == SubSeq(s, sgn + 1, Len(s))
        ml    == MantLen(body, FALSE)
        mant  == SubSeq(body, 1, ml)
        ds    == SelectSeq(mant, IsDigit)
        dotAt == IF \E i \in 1..ml : mant[i] = "."
                 THEN CHOOSE i \in 1..ml : mant[i] = "." ELSE ml + 1
        frac  == IF dotAt > ml THEN 0 ELSE ml - dotAt
        rest  == SubSeq(body, ml + 1, Len(body))
        hasE  == rest # <<>> /\ ToLowerCh(Head(rest)) = "e"
        er    == IF hasE THEN Tail(rest) ELSE <<>>
        esgn  == IF er # <<>> /\ Head(er) \in {"+", "-"} THEN 1 ELSE 0
        ed    == SubSeq(er, esgn + 1, Len(er))
        eneg  == esgn = 1 /\ Head(er) = "-"
        eok   == ed # <<>> /\ \A i \in 1..Len(ed) : IsDigit(ed[i])
        e     == IF eok THEN DigitsVal(ed) ELSE 0
        x     == (IF eneg THEN 0 - e ELSE e) - frac
        neg   == sgn = 1 /\ Head(s) = "-"
    IN
    IF ds = <<>> THEN SyntaxError
    ELSE IF rest # <<>> /\ ~(hasE /\ eok) THEN SyntaxError
    ELSE LET n  == DigitsVal(ds)
             f  == IF x >= 0 THEN Float32(n * Pow(10, x), 1)
                             ELSE Float32(n, Pow(10, 0 - x))
         IN  [ok |-> TRUE, v |-> [f EXCEPT !.neg = neg]]

\* -1 * amount
Negate(v) == IF v.cls = "nan" THEN v ELSE [v EXCEPT !.neg = ~v.neg]

RECURSIVE Itoa(_)
\* decimal digits of a natural number
Itoa(n) == IF n < 10 THEN Digits[n + 1] ELSE Itoa(n \div 10) \o Digits[(n % 10) + 1]

\* strconv.FormatFloat(v, 'f', 2, 64)
FormatFloat(v) ==
  IF v.cls = "nan" THEN "NaN"
  ELSE IF v.cls = "inf" THEN (IF v.neg THEN "-Inf" ELSE "+Inf")
  ELSE LET c == IF v.k >= 0 THEN RoundHalfEven(v.m * 100, Pow(2, v.k))
                            ELSE v.m * Pow(2, 0 - v.k) * 100
       IN  (IF v.neg THEN "-" ELSE "") \o Itoa(c \div 100) \o "."
             \o Digits[((c % 100) \div 10) + 1] \o Digits[(c % 10) + 1]

(***************************************************************************)
(* Classification of one story (main.go 145-189)                           *)
(*                                                                         *)
(* A story is the decoded Transaction: Date, Type, Amount, NoteName,       *)
(* NoteContent, RecvDisplay, RecvUser, SendDisplay, SendUser.  The fields  *)
(* ID and Title.Payload.SubType are decoded and never read.                *)
(***************************************************************************)
transfer == <<"t","r","a","n","s","f","e","r">>
payment  == <<"p","a","y","m","e","n","t">>

\* mutant: the letter case of the type is not folded
IsTransferExactCase(story) == Contains(story.Type, transfer)

\* main.go 148
IsTransfer(story) == Contains(ToLower(story.Type), transfer)

\* mutant: "payment" is matched in any letter case
IsPaymentAnyCase(story) == ~IsTransfer(story) /\ ToLower(story.Type) = payment

\* main.go 152
IsPayment(story) == ~IsTransfer(story) /\ story.Type = payment

\* main.go 155-159
StripAmount(a) ==
  TrimSpace(ReplaceAll(ReplaceAll(ReplaceAll(ReplaceAll(a, "$"), ","), "+"), "-"))

\* main.go 160-164: the payment whose amount does not parse is skipped
AmountFails(story) == IsPayment(story) /\ ~ParseFloat(StripAmount(story.Amount)).ok

\* main.go 147-167
AmountOf(story) ==
  IF IsTransfer(story) THEN Zero
  ELSE IF IsPayment(story)
  THEN LET a == ParseFloat(StripAmount(story.Amount)).v
       IN  IF Contains(story.Amount, <<"-">>) THEN Negate(a) ELSE a
  ELSE Zero

\* main.go 146-153
TypeOf(story) ==
  IF IsTransfer(story) THEN "Transfer"
  ELSE IF IsPayment(story) THEN "Payment"
  ELSE ""

\* mutant: an empty display name is not replaced by the username
NoteOfNoFallback(story) ==
  IF IsTransfer(story)
  THEN "Transfer " \o story.NoteName \o " | " \o Join(story.Amount)
  ELSE IF IsPayment(story)
  THEN IF story.SendDisplay = "you"
       THEN "To " \o story.RecvDisplay \o " | " \o story.NoteContent
       ELSE "From " \o story.SendDisplay \o " | " \o story.NoteContent
  ELSE ""

\* main.go 145-180
NoteOf(story) ==
  IF IsTransfer(story)
  THEN "Transfer " \o story.NoteName \o " | " \o Join(story.Amount)
  ELSE IF IsPayment(story)
  THEN IF story.SendDisplay = "you"
       THEN LET receiver == IF story.RecvDisplay = "" THEN story.RecvUser
                            ELSE story.RecvDisplay
            IN  "To " \o receiver \o " | " \o story.NoteContent
       ELSE LET sender == IF story.SendDisplay = "" THEN story.SendUser
                          ELSE story.SendDisplay
            IN  "From " \o sender \o " | " \o story.NoteContent
  ELSE ""

\* main.go 184-189
RecordOf(story) ==
  <<FormatFloat(AmountOf(story)), story.Date, TypeOf(story), NoteOf(story)>>

\* main.go 69
headers == <<"Amount", "Date", "Note Name", "Note Date">>

(***************************************************************************)
(* Inputs: the invocations and the feed's answers                          *)
(***************************************************************************)
MaxFetches == 2     \* requests issued in one run
MaxPageLen == 2     \* stories in one response
MaxTotal   == 3     \* stories received in one run

DateOnly(d)       == [layout |-> "dateonly", day |-> d, hour |-> 0, off |-> 0]
Naive(d, h)       == [layout |-> "naive", day |-> d, hour |-> h, off |-> 0]
Rfc3339(d, h, o)  == [layout |-> "rfc3339", day |-> d, hour |-> h, off |-> o]
Garbage           == [layout |-> "garbage", day |-> 0, hour |-> 0, off |-> 0]

\* os.Args: n = len(os.Args); the three parameters when n = 4
Invocations ==
  { [n |-> 4, externalId |-> "1234567890", endDate |-> DateOnly(2), cookie |-> "cookie"],
    [n |-> 4, externalId |-> "1234567890", endDate |-> DateOnly(3), cookie |-> "cookie"],
    [n |-> 4, externalId |-> "1234567890", endDate |-> Naive(2, 0), cookie |-> "cookie"],
    [n |-> 3, externalId |-> "1234567890", endDate |-> DateOnly(2), cookie |-> ""],
    [n |-> 5, externalId |-> "1234567890", endDate |-> DateOnly(2), cookie |-> "cookie"] }

BlankStory ==
  [Date |-> Garbage, Type |-> <<>>, Amount |-> <<>>, NoteName |-> "", NoteContent |-> "",
   RecvDisplay |-> "", RecvUser |-> "", SendDisplay |-> "", SendUser |-> ""]

\* an outgoing payment, newer than both end dates' start (day 3, 13:00)
StoryPay ==
  [BlankStory EXCEPT !.Date = Naive(3, 13), !.Type = payment,
     !.Amount = <<"-","$","5",".","0","0">>, !.NoteContent = "lunch",
     !.SendDisplay = "you", !.RecvUser = "janedoe"]
\* a transfer dated exactly at the start of day 2, written with an offset
StoryTransfer ==
  [BlankStory EXCEPT !.Date = Rfc3339(1, 23, 0 - 1),
     !.Type = <<"p","2","p","_","t","r","a","n","s","f","e","r">>,
     !.Amount = <<"$","1","0","0",".","0","0">>, !.NoteName = "Bank"]
\* an incoming payment one hour before the start of day 2
StoryOld ==
  [BlankStory EXCEPT !.Date = Rfc3339(2, 0, 1), !.Type = payment,
     !.Amount = <<"+","$","2","0",".","0","0">>, !.NoteContent = "rent",
     !.SendDisplay = "Ann", !.SendUser = "ann1"]
\* a payment whose date is in neither layout
StoryBadDate ==
  [StoryPay EXCEPT !.Date = Garbage, !.NoteContent = "baddate"]
\* a payment whose amount is not a number, dated at the start of day 3
StoryBadAmount ==
  [StoryPay EXCEPT !.Date = Naive(3, 0), !.Amount = <<"$","a","b","c">>, !.NoteContent = "badamount"]
\* a payment whose amount reads NaN
StoryNaN ==
  [StoryPay EXCEPT !.Amount = <<"-","$","N","a","N">>, !.NoteContent = "nan"]
\* a story of a type that is neither a transfer nor "payment"
StoryOther ==
  [StoryPay EXCEPT !.Type = <<"P","a","y","m","e","n","t">>,
     !.Amount = <<"$","a","b","c">>, !.NoteContent = "other"]

Stories ==
  {StoryPay, StoryTransfer, StoryOld, StoryBadDate, StoryBadAmount, StoryNaN, StoryOther}

\* a wider set of stories, every combination of the fields that decide the
\* class, the amount and the note of a record
WideTypes ==
  { payment,
    <<"P","a","y","m","e","n","t">>,
    <<>>,
    <<"p","2","p","_","t","r","a","n","s","f","e","r">>,
    <<"T","R","A","N","S","F","E","R">>,
    <<"p","a","y","m","e","n","t"," ","T","r","a","n","s","f","e","r">> }

WideAmounts ==
  { <<"-","$","5",".","0","0">>,
    <<"+","$","2","0",".","0","0">>,
    <<"-","$","1",",","2","3","4",".","5","6">>,
    <<"$","1","0","0",".","0","0">>,
    <<"$","1","3","1",",","0","7","2",".","0","1">>,
    <<"-","$","0",".","0","0">>,
    <<" ","7"," ">>,
    <<"$","a","b","c">>,
    <<"$","1",".","2",".","3">>,
    <<"-","$","N","a","N">>,
    <<>> }

WideStories ==
  { [Date |-> d, Type |-> t, Amount |-> a, NoteName |-> "Bank", NoteContent |-> "lunch",
     RecvDisplay |-> rd, RecvUser |-> "janedoe", SendDisplay |-> sd, SendUser |-> "ann1"] :
      d \in {Naive(3, 13), Rfc3339(1, 23, 0 - 1)}, t \in WideTypes, a \in WideAmounts,
      rd \in {"", "Jane"}, sd \in {"you", "You", "Ann", ""} }

\* main.go 145-189 for every story of the model, evaluated once: the loop
\* looks its story up here
Classified ==
  [story \in Stories \cup WideStories |->
     [fails |-> AmountFails(story), record |-> RecordOf(story)]]

\* the continuation tokens the n-th response may carry: none, or a token
\* the feed has not handed out before
Cursors(n) == {"", "c" \o Itoa(n)}

RECURSIVE SeqsUpTo(_, _)
\* the sequences over S of length at most n
SeqsUpTo(S, n) ==
  IF n = 0 THEN {<<>>}
  ELSE LET shorter == SeqsUpTo(S, n - 1)
       IN  shorter \cup {Append(q, x) : q \in {r \in shorter : Len(r) = n - 1}, x \in S}

\* the story lists of a response, by their greatest length
StorySeqs == [k \in 0..MaxPageLen |-> SeqsUpTo(Stories, k)]

\* the decoded ResponseData values the n-th response may hold when room
\* stories fit
Pages(n, room) ==
  [NextID : Cursors(n), Stories : StorySeqs[IF room < MaxPageLen THEN room ELSE MaxPageLen]]

NoData == [NextID |-> "", Stories |-> <<>>]

StatusOK == 200

\* what one request may come back with, the body left aside: err "do" when
\* client.Do fails, "read" when reading the body fails; status the HTTP
\* status; decodes whether json.Unmarshal accepts the body
Answers ==
  {[err |-> "do", status |-> 0, decodes |-> FALSE]}
    \cup [err : {"read"}, status : {StatusOK, 401}, decodes : {FALSE}]
    \cup [err : {"none"}, status : {StatusOK, 401, 500}, decodes : BOOLEAN]

NoResponse == [err |-> "none", status |-> 0, decodes |-> FALSE]

(***************************************************************************)
(* State                                                                   *)
(***************************************************************************)
VARIABLES
  pc,             \* "start", "fetch", "process", "exited"
  args,           \* os.Args
  endDateParsed,  \* main.go 60
  nextID,         \* main.go 75
  data,           \* main.go 116, the page being processed
  idx,            \* position of the range loop of main.go 122 in data.Stories
  buf,            \* records written to the csv.Writer and not yet flushed
  stdout,         \* what os.Stdout has received, in order
  stderr,         \* what the log package has written, in order
  exitCode,       \* process exit status, -1 while running
  requests,       \* the URLs requested so far, in order
  resp,           \* main.go 100-117, the latest response
  pages           \* the decoded responses so far, in order

vars == <<pc, args, endDateParsed, nextID, data, idx, buf, stdout, stderr,
          exitCode, requests, resp, pages>>

Header      == [kind |-> "header", rec |-> headers]
Row(r)      == [kind |-> "row", rec |-> r]
Line(text)  == [kind |-> "line", rec |-> <<text>>]

\* mutant: the flushed records land in front of the earlier output
FlushPrepends(out, b) == b \o out

\* csv.Writer.Flush: the buffered records reach os.Stdout
Flush(out, b) == out \o b

\* mutant: the cursor parameter is sent even when the cursor is empty
UrlAlwaysCursor(id, cursor) ==
  <<<<"feedType", "me">>, <<"externalId", id>>, <<"nextId", cursor>>>>

\* main.go 77-80: the query parameters of the request
Url(id, cursor) ==
  <<<<"feedType", "me">>, <<"externalId", id>>>>
    \o (IF cursor # "" THEN <<<<"nextId", cursor>>>> ELSE <<>>)

RECURSIVE Received(_)
\* the stories of the decoded responses, concatenated
Received(ps) == IF ps = <<>> THEN <<>> ELSE Head(ps).Stories \o Received(Tail(ps))

Init ==
  /\ pc = "start"
  /\ args \in Invocations
  /\ endDateParsed = 0
  /\ nextID = ""
  /\ data = NoData
  /\ idx = 1
  /\ buf = <<>>
  /\ stdout = <<>>
  /\ stderr = <<>>
  /\ exitCode = -1
  /\ requests = <<>>
  /\ resp = NoResponse
  /\ pages = <<>>

\* log.Fatalf / os.Exit(1): the process ends, deferred calls do not run
Fatal(msg) ==
  /\ pc' = "exited"
  /\ exitCode' = 1
  /\ stderr' = Append(stderr, msg)

\* return from main: the deferred writer.Flush() runs, exit status 0
Return(out) ==
  /\ pc' = "exited"
  /\ exitCode' = 0
  /\ stdout' = Flush(out, buf)
  /\ buf' = <<>>

(***************************************************************************)
(* main.go 50-72: arguments, end date, CSV header                          *)
(***************************************************************************)
UsageError ==
  /\ pc = "start"
  /\ args.n # 4
  /\ stdout' = Append(stdout,
       Line("Usage: go run main.go <external_id> <stop_transaction_date> <cookie>"))
  /\ pc' = "exited"
  /\ exitCode' = 1
  /\ UNCHANGED <<args, endDateParsed, nextID, data, idx, buf, stderr, requests, resp, pages>>

\* mutant: the header is written before the end date is parsed
BadEndDateAfterHeader ==
  /\ pc = "start"
  /\ args.n = 4
  /\ ~TimeParse("dateonly", args.endDate).ok
  /\ buf' = Append(buf, Header)
  /\ Fatal("Failed to parse end date")
  /\ UNCHANGED <<args, endDateParsed, nextID, data, idx, stdout, requests, resp, pages>>

BadEndDate ==
  /\ pc = "start"
  /\ args.n = 4
  /\ ~TimeParse("dateonly", args.endDate).ok
  /\ Fatal("Failed to parse end date")
  /\ UNCHANGED <<args, endDateParsed, nextID, data, idx, buf, stdout, requests, resp, pages>>

Start ==
  /\ pc = "start"
  /\ args.n = 4
  /\ TimeParse("dateonly", args.endDate).ok
  /\ endDateParsed' = TimeParse("dateonly", args.endDate).t
  /\ buf' = Append(buf, Header)
  /\ nextID' = ""
  /\ pc' = "fetch"
  /\ UNCHANGED <<args, data, idx, stdout, stderr, exitCode, requests, resp, pages>>

(***************************************************************************)
(* main.go 76-119: one request and the checks on its response              *)
(***************************************************************************)
\* mutant: the status of the response is not looked at
FetchErrorIgnoresStatus(r) ==
  IF r.err = "do" THEN "Failed to make HTTP request"
  ELSE IF r.err = "read" THEN "Failed to read response body"
  ELSE IF ~r.decodes THEN "Failed to parse JSON response"
  ELSE ""

\* the first check of main.go 100-119 the response fails, "" when none
FetchError(r) ==
  IF r.err = "do" THEN "Failed to make HTTP request"
  ELSE IF r.err = "read" THEN "Failed to read response body"
  ELSE IF r.status # StatusOK THEN "Failed to fetch transactions"
  ELSE IF ~r.decodes THEN "Failed to parse JSON response"
  ELSE ""

Room == MaxTotal - Len(Received(pages))

FetchFails ==
  /\ pc = "fetch"
  /\ Len(requests) < MaxFetches
  /\ \E r \in Answers :
       /\ FetchError(r) # ""
       /\ requests' = Append(requests, Url(args.externalId, nextID))
       /\ resp' = r
       /\ Fatal(FetchError(r))
  /\ UNCHANGED <<args, endDateParsed, nextID, data, idx, buf, stdout, pages>>

\* mutant: the header is written again for every page
FetchPageWritesHeader ==
  /\ pc = "fetch"
  /\ Len(requests) < MaxFetches
  /\ \E r \in Answers :
       /\ FetchError(r) = ""
       /\ requests' = Append(requests, Url(args.externalId, nextID))
       /\ resp' = r
  /\ data' \in Pages(Len(requests) + 1, Room)
  /\ pages' = Append(pages, data')
  /\ buf' = Append(buf, Header)
  /\ idx' = 1
  /\ pc' = "process"
  /\ UNCHANGED <<args, endDateParsed, nextID, stdout, stderr, exitCode>>

FetchPage ==
  /\ pc = "fetch"
  /\ Len(requests) < MaxFetches
  /\ \E r \in Answers :
       /\ FetchError(r) = ""
       /\ requests' = Append(requests, Url(args.externalId, nextID))
       /\ resp' = r
  /\ data' \in Pages(Len(requests) + 1, Room)
  /\ pages' = Append(pages, data')
  /\ idx' = 1
  /\ pc' = "process"
  /\ UNCHANGED <<args, endDateParsed, nextID, buf, stdout, stderr, exitCode>>

(***************************************************************************)
(* main.go 122-194: one iteration of the loop over data.Stories            *)
(***************************************************************************)
\* mutant: a date that does not parse is compared as the zero time
DecideStopsOnBadDate(story, cutoff) ==
  LET d == ParseTransactionDate(story.Date)
  IN  IF ~d.ok THEN "stop"
      ELSE IF Before(d.t, cutoff) THEN "stop"
      ELSE IF Classified[story].fails THEN "skipamount"
      ELSE "write"

\* mutant: stories older than the end date are filtered out, not a stop
DecideFilters(story, cutoff) ==
  LET d == ParseTransactionDate(story.Date)
  IN  IF ~d.ok THEN "skipdate"
      ELSE IF Before(d.t, cutoff) THEN "skipdate"
      ELSE IF Classified[story].fails THEN "skipamount"
      ELSE "write"

\* which way one iteration goes
Decide(story, cutoff) ==
  LET d == ParseTransactionDate(story.Date)
  IN  IF ~d.ok THEN "skipdate"
      ELSE IF Before(d.t, cutoff) THEN "stop"
      ELSE IF Classified[story].fails THEN "skipamount"
      ELSE "write"

InLoop == pc = "process" /\ idx <= Len(data.Stories)

\* main.go 126-132
SkipUnparsedDate ==
  /\ InLoop
  /\ Decide(data.Stories[idx], endDateParsed) = "skipdate"
  /\ stderr' = Append(stderr, "Failed to parse transaction date")
  /\ idx' = idx + 1
  /\ UNCHANGED <<pc, args, endDateParsed, nextID, data, buf, stdout, exitCode, requests, resp, pages>>

\* mutant: the old story is passed over and the loop goes on
ReachedEndDateContinues ==
  /\ InLoop
  /\ Decide(data.Stories[idx], endDateParsed) = "stop"
  /\ stdout' = Append(stdout, Line("Reached end date, stopping."))
  /\ idx' = idx + 1
  /\ UNCHANGED <<pc, args, endDateParsed, nextID, data, buf, stderr, exitCode, requests, resp, pages>>

\* main.go 140-143
ReachedEndDate ==
  /\ InLoop
  /\ Decide(data.Stories[idx], endDateParsed) = "stop"
  /\ Return(Append(stdout, Line("Reached end date, stopping.")))
  /\ UNCHANGED <<args, endDateParsed, nextID, data, idx, stderr, requests, resp, pages>>

\* main.go 160-164
SkipUnparsedAmount ==
  /\ InLoop
  /\ Decide(data.Stories[idx], endDateParsed) = "skipamount"
  /\ stderr' = Append(stderr, "Failed to parse amount")
  /\ idx' = idx + 1
  /\ UNCHANGED <<pc, args, endDateParsed, nextID, data, buf, stdout, exitCode, requests, resp, pages>>

\* main.go 184-193
WriteRecord ==
  /\ InLoop
  /\ Decide(data.Stories[idx], endDateParsed) = "write"
  /\ stdout' = Flush(stdout, Append(buf, Row(Classified[data.Stories[idx]].record)))
  /\ buf' = <<>>
  /\ idx' = idx + 1
  /\ UNCHANGED <<pc, args, endDateParsed, nextID, data, stderr, exitCode, requests, resp, pages>>

(***************************************************************************)
(* main.go 196-202: after the last story of the page                       *)
(***************************************************************************)
\* mutant: the loop is not left when the cursor is empty
NoMorePagesRefetches ==
  /\ pc = "process"
  /\ idx > Len(data.Stories)
  /\ data.NextID = ""
  /\ nextID' = data.NextID
  /\ pc' = "fetch"
  /\ UNCHANGED <<args, endDateParsed, data, idx, buf, stdout, stderr, exitCode, requests, resp, pages>>

NoMorePages ==
  /\ pc = "process"
  /\ idx > Len(data.Stories)
  /\ data.NextID = ""
  /\ Return(Append(stdout, Line("No more transactions to fetch.")))
  /\ UNCHANGED <<args, endDateParsed, nextID, data, idx, stderr, requests, resp, pages>>

\* mutant: the cursor is looked at one story too early
NextPageEarly ==
  /\ pc = "process"
  /\ idx >= Len(data.Stories)
  /\ data.NextID # ""
  /\ nextID' = data.NextID
  /\ pc' = "fetch"
  /\ UNCHANGED <<args, endDateParsed, data, idx, buf, stdout, stderr, exitCode, requests, resp, pages>>

NextPage ==
  /\ pc = "process"
  /\ idx > Len(data.Stories)
  /\ data.NextID # ""
  /\ nextID' = data.NextID
  /\ pc' = "fetch"
  /\ UNCHANGED <<args, endDateParsed, data, idx, buf, stdout, stderr, exitCode, requests, resp, pages>>

Next ==
  \/ UsageError
  \/ BadEndDate
  \/ Start
  \/ FetchFails
  \/ FetchPage
  \/ SkipUnparsedDate
  \/ ReachedEndDate
  \/ SkipUnparsedAmount
  \/ WriteRecord
  \/ NoMorePages
  \/ NextPage

Spec == Init /\ [][Next]_vars

\* the single sequential driver always takes its next step when it has one
FairSpec == Spec /\ WF_vars(Next)

(***************************************************************************)
(* Classification over a wider set of stories: the loop of main.go 122-194 *)
(* started on a one-story page, the only page of the feed, with the end    *)
(* date at the start of day 2 and the story dated in range.                *)
(***************************************************************************)
WideInvocation ==
  [n |-> 4, externalId |-> "1234567890", endDate |-> DateOnly(2), cookie |-> "cookie"]

\* the state after Start and a first response holding one story and no cursor
InitClassify ==
  /\ pc = "process"
  /\ args = WideInvocation
  /\ endDateParsed = TimeParse("dateonly", WideInvocation.endDate).t
  /\ nextID = ""
  /\ \E st \in WideStories : data = [NextID |-> "", Stories |-> <<st>>]
  /\ idx = 1
  /\ buf = <<Header>>
  /\ stdout = <<>>
  /\ stderr = <<>>
  /\ exitCode = -1
  /\ requests = <<Url(WideInvocation.externalId, "")>>
  /\ resp = [err |-> "none", status |-> StatusOK, decodes |-> TRUE]
  /\ pages = <<data>>

NextClassify ==
  \/ SkipUnparsedAmount
  \/ WriteRecord
  \/ NoMorePages

SpecClassify == InitClassify /\ [][NextClassify]_vars

(***************************************************************************)
(* Properties                                                              *)
(***************************************************************************)
\* the data rows among the entries of a stream
DataRows(out) == SelectSeq(out, LAMBDA e : e.kind = "row")

\* the status lines among the entries of a stream
Lines(out) == SelectSeq(out, LAMBDA e : e.kind = "line")

Cur == data.Stories[idx]
CurDate == ParseTransactionDate(Cur.Date)

\* the loop is at a story whose date parses to an instant before the end date
AtOldStory == InLoop /\ CurDate.ok /\ CurDate.t < endDateParsed

\* C1: once the loop meets a story dated strictly before the end date, the
\* run ends with status 0 in that very step, no data row is added for that
\* story or any later one, no request is issued any more, and a run that has
\* ended takes no further step.
C1_StopAtCutoffIsFinal ==
  [][ /\ pc # "exited"
      /\ AtOldStory =>
           /\ pc' = "exited"
           /\ exitCode' = 0
           /\ DataRows(stdout' \o buf') = DataRows(stdout \o buf)
           /\ requests' = requests ]_vars

\* C1 witness: the run stopped at an old story although the same page holds
\* a later story that would have been written and names a further page
C1_Witness ==
  /\ pc = "exited"
  /\ exitCode = 0
  /\ idx < Len(data.Stories)
  /\ ParseTransactionDate(data.Stories[idx].Date).ok
  /\ ParseTransactionDate(data.Stories[idx].Date).t < endDateParsed
  /\ ParseTransactionDate(data.Stories[idx + 1].Date).ok
  /\ ParseTransactionDate(data.Stories[idx + 1].Date).t >= endDateParsed
  /\ ~AmountFails(data.Stories[idx + 1])
  /\ data.NextID # ""
  /\ Len(DataRows(stdout)) = idx - 1

DateOk(story) == ParseTransactionDate(story.Date).ok
DateT(story)  == ParseTransactionDate(story.Date).t

\* the stories that precede the first story dated before the cutoff
RECURSIVE BeforeFirstOld(_, _)
BeforeFirstOld(ss, cutoff) ==
  IF ss = <<>> THEN <<>>
  ELSE IF DateOk(Head(ss)) /\ DateT(Head(ss)) < cutoff THEN <<>>
  ELSE <<Head(ss)>> \o BeforeFirstOld(Tail(ss), cutoff)

\* every date parses and no story is dated after its predecessor
Descending(ss) ==
  /\ \A i \in 1..Len(ss) : DateOk(ss[i])
  /\ \A i \in 1..(Len(ss) - 1) : DateT(ss[i]) >= DateT(ss[i + 1])

InRange(story, cutoff) == DateOk(story) /\ DateT(story) >= cutoff

EndedNormally == pc = "exited" /\ exitCode = 0 /\ Len(requests) > 0

\* C2 as stated: for a feed in descending date order, a run that ends
\* normally has written as many rows as there are stories dated at or after
\* the cutoff before the first story dated before it.
C2_Original ==
  (EndedNormally /\ Descending(Received(pages))) =>
    Len(DataRows(stdout)) =
      Len(SelectSeq(BeforeFirstOld(Received(pages), endDateParsed),
                    LAMBDA st : InRange(st, endDateParsed)))

\* C2 amended: a run that ends normally has written as many rows as there
\* are stories, before the first story dated before the cutoff, whose date
\* parses to the cutoff or later and that are not payments with an amount
\* that fails to parse; stories after the first old one are never counted.
C2_RowCount ==
  EndedNormally =>
    Len(DataRows(stdout)) =
      Len(SelectSeq(BeforeFirstOld(Received(pages), endDateParsed),
                    LAMBDA st : InRange(st, endDateParsed) /\ ~AmountFails(st)))

\* C2 witness: a descending feed over two pages in which a payment with an
\* unparseable amount precedes a written story and an old story
C2_Witness ==
  /\ EndedNormally
  /\ Len(pages) = 2
  /\ Descending(Received(pages))
  /\ Len(Received(pages)) = 3
  /\ AmountFails(Received(pages)[1])
  /\ InRange(Received(pages)[2], endDateParsed)
  /\ ~InRange(Received(pages)[3], endDateParsed)
  /\ Len(DataRows(stdout)) = 1

StatusTexts ==
  {"Reached end date, stopping.", "No more transactions to fetch.",
   "Failed to parse transaction date", "Failed to parse amount"}

\* C3 as stated: the CSV stream never holds one of the status messages or
\* per-record warnings.
C3_StatusOffCsvStream ==
  \A i \in 1..Len(stdout) :
    stdout[i].kind = "line" => stdout[i].rec[1] \notin StatusTexts

\* C4: a response with a non-success status ends the run in that step with
\* exit status 1; its body is not decoded into a page, nothing is written
\* or buffered, and a run that has ended takes no further step (no retry).
C4_BadStatusAborts ==
  [][ /\ pc # "exited"
      /\ (pc = "fetch" /\ requests' # requests
            /\ resp'.err = "none" /\ resp'.status # StatusOK) =>
           /\ pc' = "exited"
           /\ exitCode' = 1
           /\ pages' = pages
           /\ data' = data
           /\ stdout' = stdout
           /\ buf' = buf
           /\ Len(requests') = Len(requests) + 1 ]_vars

\* C4 witness: the second request was answered 401 with a decodable body,
\* after a row had been written
C4_Witness ==
  /\ pc = "exited"
  /\ exitCode = 1
  /\ resp.err = "none"
  /\ resp.status = 401
  /\ resp.decodes
  /\ Len(requests) = 2
  /\ Len(pages) = 1
  /\ Len(DataRows(stdout)) = 1

\* C5 as stated: when a fatal failure ends the run after the output has
\* been started, everything written so far has reached the output stream and
\* nothing is left in the writer's buffer.
C5_NothingLostOnFatal ==
  (pc = "exited" /\ exitCode = 1 /\ Len(requests) > 0) => buf = <<>>

\* C6: a story whose date parses in neither layout is passed over in one
\* step: no row is written or buffered, the run neither stops nor exits, no
\* request is issued, and the loop stands at the next story of the same page
\* with the cursor and the page unchanged.
C6_UnparsedDateSkipped ==
  [][ (InLoop /\ ~CurDate.ok) =>
        /\ pc' = "process"
        /\ idx' = idx + 1
        /\ data' = data
        /\ nextID' = nextID
        /\ stdout' = stdout
        /\ buf' = buf
        /\ exitCode' = exitCode
        /\ requests' = requests ]_vars

\* C6 witness: the first story of a page had an unparseable date and the
\* story after it has been written as the only row
C6_Witness ==
  /\ pc = "process"
  /\ idx = 3
  /\ ~DateOk(data.Stories[1])
  /\ DataRows(stdout) = <<Row(RecordOf(data.Stories[2]))>>
  /\ stderr = <<"Failed to parse transaction date">>

NoMoreLine == Line("No more transactions to fetch.")

\* C7: the loop leaves a page for the next request only after the last
\* story of the page; at that point an empty cursor ends the run with status
\* 0 and no new row, and a non-empty cursor becomes the cursor of the next
\* request; the run ends with the no-more-pages message only at that point.
C7_EndOfPageDecision ==
  [][ /\ (pc = "process" /\ idx > Len(data.Stories)) =>
           IF data.NextID = ""
           THEN /\ pc' = "exited"
                /\ exitCode' = 0
                /\ DataRows(stdout') = DataRows(stdout \o buf)
                /\ requests' = requests
           ELSE /\ pc' = "fetch"
                /\ nextID' = data.NextID
                /\ exitCode' = exitCode
                /\ stdout' = stdout
      /\ (pc = "process" /\ pc' = "fetch") => idx > Len(data.Stories)
      /\ (pc = "process" /\ Lines(stdout') = Append(Lines(stdout), NoMoreLine)) =>
           (idx > Len(data.Stories) /\ data.NextID = "") ]_vars

\* C7 witness: a second page without stories and without cursor ended the
\* run with status 0, leaving the row of the first page
C7_Witness ==
  /\ pc = "exited"
  /\ exitCode = 0
  /\ Len(pages) = 2
  /\ Len(pages[1].Stories) = 1
  /\ pages[2] = NoData
  /\ Len(DataRows(stdout)) = 1
  /\ Lines(stdout) = <<NoMoreLine>>

\* the row is the one written for the story
Matches(row, story) ==
  /\ row.rec[2] = story.Date
  /\ row.rec[3] = TypeOf(story)
  /\ row.rec[4] = NoteOf(story)

RECURSIVE IsSubseq(_, _)
\* the rows are written for a subsequence of the stories, in order
IsSubseq(rows, ss) ==
  IF rows = <<>> THEN TRUE
  ELSE IF ss = <<>> THEN FALSE
  ELSE IF Matches(Head(rows), Head(ss)) THEN IsSubseq(Tail(rows), Tail(ss))
  ELSE IsSubseq(rows, Tail(ss))

\* C8: the rows on the output stream, in order, are rows of a subsequence
\* of the stories received, taken page by page in request order and in page
\* order, each carrying the date string of its story as received.
C8_RowsInReceiptOrder == IsSubseq(DataRows(stdout \o buf), Received(pages))

\* C8 witness: two different rows, from two pages, with a skipped story
\* received between them
C8_Witness ==
  /\ Len(pages) = 2
  /\ Len(pages[1].Stories) = 2
  /\ Len(pages[2].Stories) = 1
  /\ Len(DataRows(stdout)) = 2
  /\ DataRows(stdout)[1] # DataRows(stdout)[2]
  /\ Matches(DataRows(stdout)[1], pages[1].Stories[1])
  /\ Matches(DataRows(stdout)[2], pages[2].Stories[1])

\* the loop is at a story dated exactly at the end date
AtCutoffStory == InLoop /\ CurDate.ok /\ CurDate.t = endDateParsed

\* C9 as stated: a story dated exactly at the end date does not stop the
\* run and its row is written.
C9_Original ==
  [][ AtCutoffStory =>
        /\ pc' = "process"
        /\ idx' = idx + 1
        /\ DataRows(stdout') = Append(DataRows(stdout), Row(RecordOf(Cur))) ]_vars

\* C9 amended: a story dated exactly at the end date does not stop the run,
\* and its row is written unless it is a payment whose amount fails to
\* parse; the run stops inside a page only at a story dated strictly before
\* the end date.
C9_CutoffIsStrict ==
  [][ /\ AtCutoffStory =>
           /\ pc' = "process"
           /\ idx' = idx + 1
           /\ exitCode' = exitCode
           /\ IF AmountFails(Cur)
              THEN stdout' = stdout /\ buf' = buf
              ELSE DataRows(stdout') = Append(DataRows(stdout), Row(RecordOf(Cur)))
      /\ (InLoop /\ pc' = "exited") => (CurDate.ok /\ CurDate.t < endDateParsed) ]_vars

\* C9 witness: the row last written belongs to a story dated exactly at the
\* end date, written with a zone offset
C9_Witness ==
  /\ pc = "process"
  /\ idx > 1
  /\ DateOk(data.Stories[idx - 1])
  /\ DateT(data.Stories[idx - 1]) = endDateParsed
  /\ data.Stories[idx - 1].Date.off # 0
  /\ stdout # <<>>
  /\ stdout[Len(stdout)] = Row(RecordOf(data.Stories[idx - 1]))

\* digits with at most one '.', and at least one digit
IsDecimalNumber(s) ==
  /\ \A i \in 1..Len(s) : IsDigit(s[i]) \/ s[i] = "."
  /\ Cardinality({i \in 1..Len(s) : s[i] = "."}) <= 1
  /\ \E i \in 1..Len(s) : IsDigit(s[i])

\* C10 as stated: a payment in range whose stripped amount is not a decimal
\* number is passed over without a row and the loop goes on; a story of any
\* other type in range is written whatever its amount.
C10_NonDecimalPaymentSkipped ==
  [][ /\ (InLoop /\ InRange(Cur, endDateParsed) /\ Cur.Type = payment
            /\ ~IsDecimalNumber(StripAmount(Cur.Amount))) =>
           /\ pc' = "process"
           /\ idx' = idx + 1
           /\ stdout' = stdout
           /\ buf' = buf
           /\ exitCode' = exitCode
      /\ (InLoop /\ InRange(Cur, endDateParsed) /\ Cur.Type # payment) =>
           /\ pc' = "process"
           /\ idx' = idx + 1
           /\ DataRows(stdout') = Append(DataRows(stdout), Row(RecordOf(Cur))) ]_vars

\* the step writes exactly the record r, which reaches the stream at once
Emits(r) == stdout' = (stdout \o buf) \o <<Row(r)>> /\ buf' = <<>>

\* the step goes on to the next story of the page without ending the run
GoesOn == pc' = "process" /\ idx' = idx + 1 /\ exitCode' = exitCode

\* the type mentions "transfer" in some letter case
MentionsTransfer(story) == Contains(ToLower(story.Type), transfer)

\* the step handles a story dated at or after the end date
AtStoryInRange == InLoop /\ InRange(Cur, endDateParsed)

\* C11 as stated: every story in range that is written carries the type
\* Transfer or the type Payment.
C11_Original ==
  [][ (AtStoryInRange /\ DataRows(stdout') # DataRows(stdout)) =>
        stdout'[Len(stdout')].rec[3] \in {"Transfer", "Payment"} ]_vars

\* C11 amended: a story in range falls in exactly one of three classes.  A
\* type mentioning "transfer" in any letter case gives a row of type
\* Transfer; the type "payment" exactly gives a row of type Payment, or no
\* row and a warning when its amount fails to parse; any other type is not
\* rejected: it gives the row with amount 0.00, empty type and empty note.
\* In every class the loop goes on with the next story.
C11_ThreeClasses ==
  [][ AtStoryInRange =>
        /\ GoesOn
        /\ ~(MentionsTransfer(Cur) /\ Cur.Type = payment)
        /\ MentionsTransfer(Cur) =>
             /\ Len(stdout') = Len(stdout \o buf) + 1
             /\ stdout'[Len(stdout')].kind = "row"
             /\ stdout'[Len(stdout')].rec[3] = "Transfer"
        /\ Cur.Type = payment =>
             \/ /\ Len(stdout') = Len(stdout \o buf) + 1
                /\ stdout'[Len(stdout')].kind = "row"
                /\ stdout'[Len(stdout')].rec[3] = "Payment"
             \/ /\ stdout' = stdout
                /\ buf' = buf
                /\ stderr' = Append(stderr, "Failed to parse amount")
        /\ (~MentionsTransfer(Cur) /\ Cur.Type # payment) =>
             Emits(<<"0.00", Cur.Date, "", "">>) ]_vars

\* C11 witness: a story of type "Payment" with the amount -$5.00 has been
\* written as the row with amount 0.00 and empty type and note
C11_Witness ==
  /\ pc = "process"
  /\ idx = 2
  /\ data.Stories[1].Type = <<"P","a","y","m","e","n","t">>
  /\ data.Stories[1].Amount = <<"-","$","5",".","0","0">>
  /\ stdout = <<Header, Row(<<"0.00", data.Stories[1].Date, "", "">>)>>

\* C12: a story in range whose type mentions "transfer" in any letter case
\* is written with amount 0.00 whatever its amount string, type Transfer and
\* the note "Transfer {note.name} | {amount as received}", also when the
\* type mentions "payment" as well.
C12_TransferRow ==
  [][ (AtStoryInRange /\ MentionsTransfer(Cur)) =>
        /\ GoesOn
        /\ Emits(<<"0.00", Cur.Date, "Transfer",
                   "Transfer " \o Cur.NoteName \o " | " \o Join(Cur.Amount)>>) ]_vars

\* C12 witness: an upper-case TRANSFER with the amount -$1,234.56 has been
\* written with amount 0.00
C12_Witness ==
  /\ pc = "process"
  /\ idx = 2
  /\ data.Stories[1].Type = <<"T","R","A","N","S","F","E","R">>
  /\ stdout = <<Header, Row(<<"0.00", data.Stories[1].Date, "Transfer",
                              "Transfer Bank | -$1,234.56">>)>>

\* the number of characters after the '.' of a decimal number
FracDigits(s) ==
  IF \E i \in 1..Len(s) : s[i] = "."
  THEN Len(s) - (CHOOSE i \in 1..Len(s) : s[i] = ".")
  ELSE 0

\* the amount string read exactly, in hundredths, for at most two decimals
ExactCents(a) ==
  LET s == StripAmount(a)
  IN  DigitsVal(SelectSeq(s, IsDigit)) * Pow(10, 2 - FracDigits(s))

\* the exact amount with two decimals, negative iff the string holds a '-'
ExactText(a) ==
  (IF Contains(a, <<"-">>) THEN "-" ELSE "") \o Itoa(ExactCents(a) \div 100) \o "."
    \o Digits[((ExactCents(a) % 100) \div 10) + 1] \o Digits[(ExactCents(a) % 10) + 1]

\* C13 as stated: for a payment in range whose stripped amount is a decimal
\* number with at most two decimals, the amount written is that number,
\* negated exactly when the amount string holds a '-'.
C13_PaymentAmountExact ==
  [][ (AtStoryInRange /\ Cur.Type = payment
         /\ IsDecimalNumber(StripAmount(Cur.Amount))
         /\ FracDigits(StripAmount(Cur.Amount)) <= 2) =>
        /\ Len(stdout') = Len(stdout \o buf) + 1
        /\ stdout'[Len(stdout')].kind = "row"
        /\ stdout'[Len(stdout')].rec[1] = ExactText(Cur.Amount) ]_vars

\* C14: a payment in range that is written carries the note
\* "To {receiver} | {note.content}" when sender.displayName is "you" and
\* "From {sender} | {note.content}" otherwise, the counterparty being its
\* displayName, or its username exactly when the displayName is empty.
C14_PaymentNote ==
  [][ (AtStoryInRange /\ Cur.Type = payment /\ DataRows(stdout') # DataRows(stdout)) =>
        stdout'[Len(stdout')].rec[4] =
          IF Cur.SendDisplay = "you"
          THEN "To " \o (IF Cur.RecvDisplay = "" THEN Cur.RecvUser ELSE Cur.RecvDisplay)
                 \o " | " \o Cur.NoteContent
          ELSE "From " \o (IF Cur.SendDisplay = "" THEN Cur.SendUser ELSE Cur.SendDisplay)
                 \o " | " \o Cur.NoteContent ]_vars

\* C14 witness: the payment of -$5.00 sent by "you" to a receiver without
\* display name has been written with the note "To janedoe | lunch"
C14_Witness ==
  /\ pc = "process"
  /\ idx = 2
  /\ data.Stories[1].SendDisplay = "you"
  /\ data.Stories[1].RecvDisplay = ""
  /\ stdout = <<Header, Row(<<"-5.00", data.Stories[1].Date, "Payment",
                              "To janedoe | lunch">>)>>

\* not exactly three parameters, or an end date that is not YYYY-MM-DD
InvalidInvocation == args.n # 4 \/ args.endDate.layout # "dateonly"

\* the header and data rows among the entries of a stream
Csv(out) == SelectSeq(out, LAMBDA e : e.kind \in {"header", "row"})

\* C15: in a run with an invalid invocation no request is ever issued, no
\* header or row is ever written or buffered, and the run leaves its start
\* only by exiting with status 1.
C15_InvalidInvocationDoesNothing ==
  InvalidInvocation =>
    /\ requests = <<>>
    /\ pages = <<>>
    /\ Csv(stdout \o buf) = <<>>
    /\ pc \in {"start", "exited"}
    /\ pc = "exited" => exitCode = 1

\* C15 witness: three parameters with an end date carrying a time of day,
\* exited with status 1 and a message on the diagnostic stream
C15_Witness ==
  /\ args.n = 4
  /\ args.endDate.layout = "naive"
  /\ pc = "exited"
  /\ exitCode = 1
  /\ stderr = <<"Failed to parse end date">>

\* the values of the query parameter called name, in order
Params(url, name) == SelectSeq(url, LAMBDA kv : kv[1] = name)

\* C16: every request carries the external id once; the first request
\* carries no cursor parameter; every later request carries exactly the
\* cursor of the page decoded just before it, which is not empty; and there
\* is at most one request more than there are pages decoded.
C16_CursorThreading ==
  /\ Len(requests) <= Len(pages) + 1
  /\ \A i \in 1..Len(requests) :
       /\ Params(requests[i], "externalId") = <<<<"externalId", args.externalId>>>>
       /\ IF i = 1
          THEN Params(requests[i], "nextId") = <<>>
          ELSE /\ pages[i - 1].NextID # ""
               /\ Params(requests[i], "nextId") = <<<<"nextId", pages[i - 1].NextID>>>>

\* C16 witness: a second request has been issued with the cursor of a first
\* page that held two stories
C16_Witness ==
  /\ Len(requests) = 2
  /\ Len(pages[1].Stories) = 2
  /\ pages[1].NextID = "c1"
  /\ Params(requests[2], "nextId") = <<<<"nextId", "c1">>>>
  /\ Params(requests[1], "nextId") = <<>>

IsOld(story) == DateOk(story) /\ DateT(story) < endDateParsed

\* the page being processed ends the run: it has no cursor, or a story dated
\* before the end date is still ahead in it
WillStop ==
  /\ pc = "process"
  /\ \/ data.NextID = ""
     \/ \E i \in idx..Len(data.Stories) : IsOld(data.Stories[i])

\* every page so far named a further page and held no story dated before
\* the end date
OnlyOpenPages ==
  \A i \in 1..Len(pages) :
    /\ pages[i].NextID # ""
    /\ \A j \in 1..Len(pages[i].Stories) : ~IsOld(pages[i].Stories[j])

\* C17: under fair scheduling, a page without cursor or with a story dated
\* before the end date leads to the end of the run, and every run either
\* ends or has used up its requests on pages that all named a further page
\* and held no story dated before the end date.
C17_Termination ==
  /\ WillStop ~> (pc = "exited")
  /\ <>(pc = "exited" \/ (pc = "fetch" /\ Len(requests) = MaxFetches /\ OnlyOpenPages))

\* C17 witness: the run has ended with status 0 at an old story that came
\* second on the second page, both pages naming a further page
C17_Witness ==
  /\ pc = "exited"
  /\ exitCode = 0
  /\ Len(pages) = 2
  /\ pages[1].NextID # ""
  /\ pages[2].NextID # ""
  /\ idx = 2
  /\ Len(data.Stories) = 2
  /\ IsOld(data.Stories[2])
  /\ ~IsOld(data.Stories[1])

Headers(out) == SelectSeq(out, LAMBDA e : e.kind = "header")

\* every data row of the stream comes after a header
HeaderFirst(out) ==
  \A i \in 1..Len(out) :
    out[i].kind = "row" => \E j \in 1..(i - 1) : out[j].kind = "header"

\* C18 as stated: a run that has ended has written the header exactly once,
\* and every data row on the output stream comes after it.
C18_Original ==
  pc = "exited" => (Len(Headers(stdout \o buf)) = 1 /\ HeaderFirst(stdout))

\* C18 amended: with a valid invocation the header has been written exactly
\* once from the start step on, before any request; with an invalid one it
\* is never written; every data row on the output stream comes after the
\* header.
C18_HeaderOnceAndFirst ==
  /\ Len(Headers(stdout \o buf)) =
       (IF InvalidInvocation \/ pc = "start" THEN 0 ELSE 1)
  /\ HeaderFirst(stdout)

\* C18 witness: the header and two rows, of two pages, are on the stream
C18_Witness ==
  /\ Len(pages) = 2
  /\ Len(stdout) = 3
  /\ stdout[1] = Header
  /\ stdout[2].kind = "row"
  /\ stdout[3].kind = "row"

====
